---- MODULE Spec2Model ----
(***************************************************************************)
(* Order tracking page (src/app/orders/tracking-orders/page.tsx): the      *)
(* real-time orders subscription, the visibility filter, the tracking      *)
(* projection upsert and the transactional status update, over the shared  *)
(* Firestore collections orders, customers, stocks, stockHistory, sales    *)
(* and tracking_orders.                                                    *)
(*                                                                         *)
(* Strings that the code takes apart (customer names) are sequences of     *)
(* one-character strings; all other strings are atoms.                     *)
(***************************************************************************)
EXTENDS Integers, Sequences, FiniteSets, TLC

VARIABLES
    orders,        \* collection "orders": order id -> document
    stocks,        \* collection "stocks": stock id -> document
    stockHistory,  \* collection "stockHistory": documents in commit order
    sales,         \* collection "sales": documents in commit order
    tracking,      \* collection "tracking_orders": documents in insert order
    clock,         \* the time; advances with every commit to "orders"
    sess,          \* per staff session: the React state (orders, loading) and
                   \* the store time of the last snapshot delivered to it
    txn,           \* per staff session: the handleStatusUpdate call in flight
    ncalls,        \* number of handleStatusUpdate calls issued so far
    handlers,      \* per staff session: the onSnapshot callbacks in flight
    subscribed,    \* per staff session: the subscription is not yet released
    searchTerm     \* per staff session: the React state searchTerm

vars == <<orders, stocks, stockHistory, sales, tracking, clock, sess, txn, ncalls,
          handlers, subscribed, searchTerm>>

\* the state of the page that a status update and the other writers leave alone
pageVars == <<handlers, subscribed, searchTerm>>

----------------------------------------------------------------------------
(* Bounds of the model *)

\* handleStatusUpdate calls issued in one behaviour
MaxCalls == 2

Sessions == {"s1", "s2"}
OrderIds == {"o1", "o2"}
StockIds == <<"k1", "k2">>

NoTime == 0

----------------------------------------------------------------------------
(* Small helpers *)

Range(f) == {f[i] : i \in DOMAIN f}

RECURSIVE SumSeq(_)
SumSeq(s) == IF s = <<>> THEN 0 ELSE Head(s) + SumSeq(Tail(s))

RECURSIVE FilterSeq(_, _)
\* Array.prototype.filter: the elements whose index is in keep, in order
FilterSeq(s, keep) ==
    IF s = <<>> THEN <<>>
    ELSE LET n == Len(s)
             front == FilterSeq(SubSeq(s, 1, n - 1), keep)
         IN  IF n \in keep THEN Append(front, s[n]) ELSE front

\* character strings
Str_NA      == <<"N", "/", "A">>
Str_Unknown == <<"U", "n", "k", "n", "o", "w", "n">>
Space       == " "

----------------------------------------------------------------------------
(* The customers collection (read-only for this page) *)

NoDoc == [exists |-> FALSE, name |-> <<>>, firstName |-> <<>>, lastName |-> <<>>]

Customers ==
    [u \in {"u1", "u2", "u3"} |->
        CASE u = "u1" -> [exists |-> TRUE, name |-> <<"A", "l", " ", "B", "o">>,
                          firstName |-> <<>>, lastName |-> <<>>]
          [] u = "u2" -> [exists |-> TRUE, name |-> <<>>,
                          firstName |-> <<"C", "y">>, lastName |-> <<>>]
          [] OTHER    -> NoDoc]

RECURSIVE Split(_, _)
\* String.prototype.split(sep): the pieces between the separators
Split(str, sep) ==
    IF \A i \in DOMAIN str : str[i] # sep THEN <<str>>
    ELSE LET i == CHOOSE j \in DOMAIN str :
                      str[j] = sep /\ \A k \in 1..(j - 1) : str[k] # sep
         IN  <<SubSeq(str, 1, i - 1)>> \o Split(SubSeq(str, i + 1, Len(str)), sep)

RECURSIVE Join(_, _)
\* Array.prototype.join(sep)
Join(parts, sep) ==
    IF parts = <<>> THEN <<>>
    ELSE IF Len(parts) = 1 THEN parts[1]
    ELSE parts[1] \o <<sep>> \o Join(Tail(parts), sep)

\* a || b on strings: the empty string is falsy
OrElse(a, b) == IF a = <<>> THEN b ELSE a

NoUser == [found |-> FALSE, firstName |-> <<>>, lastName |-> <<>>]

\* fetchUserDetails; throws is TRUE when the getDoc read fails (caught: null)
fetchUserDetails(userId, throws) ==
    IF throws THEN NoUser
    ELSE LET data == Customers[userId] IN
         IF ~data.exists THEN NoUser
         ELSE IF data.name # <<>>
              THEN LET nameParts == Split(data.name, Space) IN
                   [found |-> TRUE,
                    firstName |-> nameParts[1],
                    lastName |-> OrElse(Join(Tail(nameParts), Space), Str_NA)]
              ELSE [found |-> TRUE,
                    firstName |-> OrElse(data.firstName, Str_NA),
                    lastName |-> OrElse(data.lastName, Str_NA)]

\* `${firstName} ${lastName}`, or 'Unknown' without user details
customerName_Mutant(userDetails) ==
    IF userDetails.found
    THEN userDetails.firstName \o <<Space>> \o userDetails.lastName
    ELSE <<>>
customerName(userDetails) ==
    IF userDetails.found
    THEN userDetails.firstName \o <<Space>> \o userDetails.lastName
    ELSE Str_Unknown

----------------------------------------------------------------------------
(* Documents *)

Statuses == {"Order Confirmed", "Preparing Order", "Ready for Pickup",
             "Completed", "Cancelled"}

\* a payment status the order document does not carry (undefined)
Undefined == "undefined"

Item(size, varieties, quantity, price) ==
    [cartId |-> "c", productSize |-> size, productVarieties |-> varieties,
     productQuantity |-> quantity, productPrice |-> price]

\* The line items an order is created with (by the checkout flow)
ItemsSingle == <<Item("S", <<"a">>, 3, 2)>>
ItemsSmall  == <<Item("S", <<"b">>, 1, 3)>>
ItemsTwo    == <<Item("S", <<"b">>, 1, 3), Item("S", <<"a", "b">>, 3, 2)>>
\* the third line item has no stock record of its size
ItemsMixed  == <<Item("S", <<"b">>, 1, 3), Item("S", <<"a", "b">>, 3, 2),
                 Item("L", <<"a">>, 1, 1)>>

RECURSIVE Subtotals(_)
\* per line item: productQuantity * productPrice
Subtotals(items) ==
    IF items = <<>> THEN <<>>
    ELSE <<Head(items).productQuantity * Head(items).productPrice>>
         \o Subtotals(Tail(items))

UserOf(o)      == IF o = "o1" THEN "u1" ELSE "u3"
CreatedAtOf(o) == IF o = "o1" THEN -2 ELSE -1

\* An order document as the checkout flow writes it: the total is the sum of
\* the line items' subtotals
NewOrder(o, items, method, payStatus) ==
    [exists |-> TRUE, userId |-> UserOf(o), items |-> items,
     status |-> "Order Placed", totalAmount |-> SumSeq(Subtotals(items)),
     paymentMethod |-> method, paymentStatus |-> payStatus,
     pickupTime |-> "10:00", pickupDate |-> "d1",
     createdAt |-> CreatedAtOf(o), updatedAt |-> NoTime, completedAt |-> NoTime,
     ver |-> 1]

\* the stocks collection in document order: two records of size S, the first
\* with variety a, the second with varieties b and a
NewStocks(q1, q2) ==
    [k \in Range(StockIds) |->
        IF k = "k1"
        THEN [sizeName |-> "S", varieties |-> <<"a">>, quantity |-> q1,
              lastUpdated |-> NoTime]
        ELSE [sizeName |-> "S", varieties |-> <<"b", "a">>, quantity |-> q2,
              lastUpdated |-> NoTime]]

NoTxn ==
    [pc |-> "idle", orderId |-> "none", newStatus |-> "none", order |-> <<>>,
     readVer |-> 0, idx |-> 0, wStock |-> <<>>, wHist |-> <<>>, wSales |-> <<>>,
     wOrder |-> <<>>, result |-> "none", alert |-> <<>>, attempts |-> 0,
     pre |-> <<>>]

\* itemChoices: pairs of line-item lists (of o1, of o2); payChoices: pairs
\* (payment method, payment status); qtyChoices: pairs of stock quantities
InitWith(itemChoices, payChoices, qtyChoices) ==
    /\ \E items \in itemChoices, pay \in [OrderIds -> payChoices] :
          orders = [o \in OrderIds |->
                      NewOrder(o, IF o = "o1" THEN items[1] ELSE items[2],
                               pay[o][1], pay[o][2])]
    /\ \E q \in qtyChoices : stocks = NewStocks(q[1], q[2])
    /\ stockHistory = <<>>
    /\ sales = <<>>
    /\ tracking = <<>>
    /\ clock = 1
    /\ sess = [s \in Sessions |-> [orders |-> <<>>, loading |-> TRUE, seen |-> 0]]
    /\ txn = [s \in Sessions |-> NoTxn]
    /\ ncalls = 0
    /\ handlers = [s \in Sessions |-> {}]
    /\ subscribed = [s \in Sessions |-> TRUE]
    /\ searchTerm = [s \in Sessions |-> <<>>]

----------------------------------------------------------------------------
(* Real-time orders subscription: the onSnapshot callback *)

RECURSIVE SortByCreatedAtDesc(_)
\* orderBy("orderDetails.createdAt", "desc") over a set of order ids
SortByCreatedAtDesc(ids) ==
    IF ids = {} THEN <<>>
    ELSE LET newest == CHOOSE o \in ids :
                          \A p \in ids : orders[p].createdAt <= orders[o].createdAt
         IN  <<newest>> \o SortByCreatedAtDesc(ids \ {newest})

\* snapshot.docs of the query over the orders collection
SnapshotDocs == SortByCreatedAtDesc({o \in OrderIds : orders[o].exists})

\* { id: doc.id, ref: doc.ref, ...data, userDetails }
EnrichedOrder(o, failing) ==
    [id |-> o, ref |-> o, data |-> orders[o],
     userDetails |-> fetchUserDetails(orders[o].userId, orders[o].userId \in failing)]

\* the visibility filter of the callback (the orderList.filter predicate)
Visible_Mutant(order) ==
    order.data.paymentStatus # "pending"
Visible(order) ==
    IF order.data.paymentMethod = "GCash"
    THEN order.data.paymentStatus = "approved"
    ELSE order.data.paymentStatus # "pending"

\* the TrackingOrder object built by saveTrackingOrder
TrackingOrderOf(order, now) ==
    [orderId |-> order.id, userId |-> order.data.userId,
     customerName |-> customerName(order.userDetails),
     paymentMethod |-> order.data.paymentMethod,
     paymentStatus |-> IF order.data.paymentStatus = Undefined
                       THEN "unknown" ELSE order.data.paymentStatus,
     orderStatus |-> order.data.status,
     createdAt |-> order.data.createdAt, updatedAt |-> now,
     pickupTime |-> order.data.pickupTime, pickupDate |-> order.data.pickupDate,
     totalAmount |-> order.data.totalAmount, items |-> order.data.items]

\* trackingQuery answered from the collection tr: the index of the first
\* document whose orderId is the order's (querySnapshot.docs[0]), 0 if empty
TrackingQuery(tr, orderId) ==
    LET found == {i \in DOMAIN tr : tr[i].orderId = orderId} IN
    IF found = {} THEN 0 ELSE CHOOSE i \in found : \A j \in found : i <= j

\* addDoc(trackingRef, {...trackingOrder, createdAt, updatedAt: serverTimestamp()})
AddTracking(tr, order, now) ==
    Append(tr, [TrackingOrderOf(order, now) EXCEPT
                   !.createdAt = now, !.updatedAt = now])

\* updateDoc(trackingDoc.ref, {...trackingOrder, updatedAt: serverTimestamp()})
\* on the document at index i
UpdateTracking(tr, i, order, now) ==
    [tr EXCEPT ![i] = [TrackingOrderOf(order, now) EXCEPT !.updatedAt = now]]

\* saveTrackingOrder run to completion against the collection tr: query by
\* orderId, then addDoc (empty result) or updateDoc of the first match
saveTrackingOrder(tr, order, now) ==
    LET first == TrackingQuery(tr, order.id) IN
    IF first = 0 THEN AddTracking(tr, order, now)
    ELSE UpdateTracking(tr, first, order, now)

RECURSIVE SaveAll(_, _, _)
SaveAll(tr, list, now) ==
    IF list = <<>> THEN tr
    ELSE SaveAll(saveTrackingOrder(tr, Head(list), now), Tail(list), now)

\* The callback of onSnapshot for one snapshot, its awaits run without another
\* handler in between: enrich, filter, save the filtered orders, setOrders.
\* A snapshot is delivered when the orders collection changed since the last.
OnSnapshot(s, failing) ==
    /\ subscribed[s]
    /\ sess[s].seen < clock
    /\ LET docs == SnapshotDocs
           orderList == [i \in DOMAIN docs |-> EnrichedOrder(docs[i], failing)]
           filteredOrders ==
               FilterSeq(orderList, {i \in DOMAIN orderList : Visible(orderList[i])})
       IN  /\ tracking' = SaveAll(tracking, filteredOrders, clock)
           /\ sess' = [sess EXCEPT ![s] = [orders |-> filteredOrders,
                                           loading |-> FALSE, seen |-> clock]]
    /\ UNCHANGED <<orders, stocks, stockHistory, sales, clock, txn, ncalls>>
    /\ UNCHANGED pageVars

----------------------------------------------------------------------------
(* The onSnapshot callback await by await: its saveTrackingOrder calls run  *)
(* side by side (Promise.all), and callbacks of later snapshots may start   *)
(* while an earlier one is still awaiting                                   *)

\* callbacks of one session in flight at the same time
MaxHandlers == 2

\* the enriched and filtered orders of the snapshot of the collection as it is
\* now (the customer lookups answer the same whenever they are made)
FilteredOrders(failing) ==
    LET docs == SnapshotDocs
        orderList == [i \in DOMAIN docs |-> EnrichedOrder(docs[i], failing)]
    IN  FilterSeq(orderList, {i \in DOMAIN orderList : Visible(orderList[i])})

\* a callback that has reached Promise.all(filteredOrders.map(saveTrackingOrder)):
\* every saveTrackingOrder call is about to await its query
NewHandler(filteredOrders, now) ==
    [at |-> now, filteredOrders |-> filteredOrders,
     save |-> [i \in DOMAIN filteredOrders |-> [pc |-> "query", found |-> 0]]]

\* A snapshot is delivered to session s and its callback starts. Snapshots are
\* delivered while the subscription stands and the collection has changed
\* since the last one.
Deliver(s, failing) ==
    /\ subscribed[s]
    /\ sess[s].seen < clock
    /\ Cardinality(handlers[s]) < MaxHandlers
    /\ handlers' = [handlers EXCEPT ![s] =
                       @ \cup {NewHandler(FilteredOrders(failing), clock)}]
    /\ sess' = [sess EXCEPT ![s].seen = clock]
    /\ UNCHANGED <<orders, stocks, stockHistory, sales, tracking, clock, txn,
                   ncalls, subscribed, searchTerm>>

\* getDocs(trackingQuery) of the i-th saveTrackingOrder call of callback h
SaveQuery(s, h, i) ==
    /\ h \in handlers[s]
    /\ i \in DOMAIN h.save
    /\ h.save[i].pc = "query"
    /\ handlers' = [handlers EXCEPT ![s] = (@ \ {h}) \cup
          {[h EXCEPT !.save[i] =
               [pc |-> "write",
                found |-> TrackingQuery(tracking, h.filteredOrders[i].id)]]}]
    /\ UNCHANGED <<orders, stocks, stockHistory, sales, tracking, clock, sess,
                   txn, ncalls, subscribed, searchTerm>>

\* the addDoc or updateDoc of the i-th saveTrackingOrder call of callback h,
\* on what its query had answered
SaveWrite(s, h, i) ==
    /\ h \in handlers[s]
    /\ i \in DOMAIN h.save
    /\ h.save[i].pc = "write"
    /\ tracking' = IF h.save[i].found = 0
                   THEN AddTracking(tracking, h.filteredOrders[i], clock)
                   ELSE UpdateTracking(tracking, h.save[i].found,
                                       h.filteredOrders[i], clock)
    /\ handlers' = [handlers EXCEPT ![s] = (@ \ {h}) \cup
                       {[h EXCEPT !.save[i].pc = "done"]}]
    /\ UNCHANGED <<orders, stocks, stockHistory, sales, clock, sess, txn,
                   ncalls, subscribed, searchTerm>>

\* Promise.all has resolved: setOrders(filteredOrders), setLoading(false).
\* The state of a page that has been unmounted is gone: setting it does nothing.
HandlerFinish_Mutant(s, h) ==
    /\ h \in handlers[s]
    /\ sess' = IF subscribed[s]
               THEN [sess EXCEPT ![s].orders = h.filteredOrders,
                                 ![s].loading = FALSE]
               ELSE sess
    /\ handlers' = [handlers EXCEPT ![s] = @ \ {h}]
    /\ UNCHANGED <<orders, stocks, stockHistory, sales, tracking, clock, txn,
                   ncalls, subscribed, searchTerm>>
HandlerFinish(s, h) ==
    /\ h \in handlers[s]
    /\ \A i \in DOMAIN h.save : h.save[i].pc = "done"
    /\ sess' = IF subscribed[s]
               THEN [sess EXCEPT ![s].orders = h.filteredOrders,
                                 ![s].loading = FALSE]
               ELSE sess
    /\ handlers' = [handlers EXCEPT ![s] = @ \ {h}]
    /\ UNCHANGED <<orders, stocks, stockHistory, sales, tracking, clock, txn,
                   ncalls, subscribed, searchTerm>>

\* the cleanup of the effect: unsubscribe(), when the page is left
Unsubscribe(s) ==
    /\ subscribed[s]
    /\ subscribed' = [subscribed EXCEPT ![s] = FALSE]
    /\ UNCHANGED <<orders, stocks, stockHistory, sales, tracking, clock, sess,
                   txn, ncalls, handlers, searchTerm>>

----------------------------------------------------------------------------
(* The search box: the rendered list is the order list filtered by searchTerm *)

Uppercase == <<"A", "B", "C", "D", "E", "F", "G", "H", "I", "J", "K", "L", "M",
               "N", "O", "P", "Q", "R", "S", "T", "U", "V", "W", "X", "Y", "Z">>
Lowercase == <<"a", "b", "c", "d", "e", "f", "g", "h", "i", "j", "k", "l", "m",
               "n", "o", "p", "q", "r", "s", "t", "u", "v", "w", "x", "y", "z">>

\* String.prototype.toLowerCase
ToLowerCase(str) ==
    [i \in DOMAIN str |->
        IF \E k \in DOMAIN Uppercase : Uppercase[k] = str[i]
        THEN Lowercase[CHOOSE k \in DOMAIN Uppercase : Uppercase[k] = str[i]]
        ELSE str[i]]

\* String.prototype.includes
Includes(str, sub) ==
    \E k \in 0..(Len(str) - Len(sub)) : SubSeq(str, k + 1, k + Len(sub)) = sub

\* the characters of order.id (document ids mix upper and lower case)
IdString(o) == IF o = "o1" THEN <<"A", "b", "1">> ELSE <<"a", "2">>

\* matchesSearch of one order of the list
MatchesSearch_Mutant(order, term) ==
    \/ Includes(IdString(order.id), ToLowerCase(term))
    \/ /\ order.userDetails.found
       /\ Includes(ToLowerCase(customerName(order.userDetails)), ToLowerCase(term))
MatchesSearch(order, term) ==
    \/ Includes(ToLowerCase(IdString(order.id)), ToLowerCase(term))
    \/ /\ order.userDetails.found
       /\ Includes(ToLowerCase(order.userDetails.firstName \o <<Space>>
                                  \o order.userDetails.lastName),
                   ToLowerCase(term))

\* const filteredOrders = orders.filter(...): what the table of session s shows
SearchResult(s) ==
    FilterSeq(sess[s].orders,
              {i \in DOMAIN sess[s].orders :
                  MatchesSearch(sess[s].orders[i], searchTerm[s])})

\* the customer cell of a row: the name, or "Loading..." without user details
Str_Loading == <<"L", "o", "a", "d", "i", "n", "g", ".", ".", ".">>
DisplayName(order) ==
    IF order.userDetails.found
    THEN order.userDetails.firstName \o <<Space>> \o order.userDetails.lastName
    ELSE Str_Loading

\* what is typed into the search box
SearchTerms ==
    {<<>>, <<"a">>, <<"A">>, <<"B", "1">>, <<"2">>, <<"l", " ", "B">>, <<"B", "O">>,
     <<"n", "/", "a">>, <<"u", "n", "k">>, <<"a", "B">>, <<"A", "b", "1", "x">>}

\* onChange of the search box: setSearchTerm(e.target.value)
SetSearchTerm(s, term) ==
    /\ searchTerm[s] # term
    /\ searchTerm' = [searchTerm EXCEPT ![s] = term]
    /\ UNCHANGED <<orders, stocks, stockHistory, sales, tracking, clock, sess,
                   txn, ncalls, handlers, subscribed>>

----------------------------------------------------------------------------
(* handleStatusUpdate: the status update and its transaction *)

\* orders.find((o) => o.id === orderId): index of the first match, 0 if none
FindOrder(list, orderId) ==
    LET hits == {i \in DOMAIN list : list[i].id = orderId} IN
    IF hits = {} THEN 0 ELSE CHOOSE i \in hits : \A j \in hits : i <= j

\* the stock query of one line item: sizeName == productSize and varieties
\* array-contains-any productVarieties; the matching ids in document order
StockQuery(item) ==
    LET hit(k) == /\ stocks[k].sizeName = item.productSize
                  /\ Range(stocks[k].varieties) \cap Range(item.productVarieties) # {}
    IN  FilterSeq(StockIds, {i \in DOMAIN StockIds : hit(StockIds[i])})

\* `<what> for ${productSize} with varieties ${productVarieties.join(", ")}`
StockError(what, item) ==
    <<what, item.productSize, " with varieties ">>
    \o Join([i \in DOMAIN item.productVarieties |-> <<item.productVarieties[i]>>], ", ")

\* the stock check of a line item: stockData.quantity < item.productQuantity
Insufficient_Mutant(quantity, requested) == quantity + 1 < requested
Insufficient(quantity, requested) == quantity < requested

\* newQuantity = stockData.quantity - item.productQuantity
NewQuantity_Mutant(quantity, requested) == requested - quantity
NewQuantity(quantity, requested) == quantity - requested

\* the stockHistory document of one line item
HistoryEntry_Mutant(item, orderId, stockId, quantity, now) ==
    [varieties |-> item.productVarieties, sizeName |-> item.productSize,
     type |-> "out", quantity |-> item.productQuantity,
     previousStock |-> NewQuantity(quantity, item.productQuantity),
     currentStock |-> NewQuantity(quantity, item.productQuantity),
     date |-> now, updatedBy |-> "System",
     remarks |-> <<"Order ", orderId, " ready for pickup">>,
     stockId |-> stockId, isDeleted |-> FALSE]
HistoryEntry(item, orderId, stockId, quantity, now) ==
    [varieties |-> item.productVarieties, sizeName |-> item.productSize,
     type |-> "out", quantity |-> item.productQuantity,
     previousStock |-> quantity,
     currentStock |-> NewQuantity(quantity, item.productQuantity),
     date |-> now, updatedBy |-> "System",
     remarks |-> <<"Order ", orderId, " ready for pickup">>,
     stockId |-> stockId, isDeleted |-> FALSE]

\* the items of the sales document
SaleItems_Mutant(items) ==
    [i \in DOMAIN items |->
        [size |-> items[i].productSize, varieties |-> items[i].productVarieties,
         quantity |-> items[i].productQuantity, price |-> items[i].productPrice,
         subtotal |-> items[i].productPrice]]
SaleItems(items) ==
    [i \in DOMAIN items |->
        [size |-> items[i].productSize, varieties |-> items[i].productVarieties,
         quantity |-> items[i].productQuantity, price |-> items[i].productPrice,
         subtotal |-> items[i].productQuantity * items[i].productPrice]]

\* the sales document of a completed order, from the session's copy of it
SaleOf(order, orderId, now) ==
    [orderId |-> orderId, amount |-> order.data.totalAmount, date |-> now,
     items |-> SaleItems(order.data.items),
     paymentMethod |-> order.data.paymentMethod,
     customerName |-> customerName(order.userDetails)]

\* the fields of the final transaction.update(orderRef, ...)
OrderUpdate_Mutant(newStatus, now) ==
    [status |-> newStatus, updatedAt |-> now, setCompletedAt |-> TRUE,
     completedAt |-> now]
OrderUpdate(newStatus, now) ==
    [status |-> newStatus, updatedAt |-> now,
     setCompletedAt |-> (newStatus = "Completed"), completedAt |-> now]

\* the order document after the buffered update w is written at time t
WriteOrder_Mutant(doc, w, t) ==
    [doc EXCEPT !.status = IF doc.status \in {"Completed", "Cancelled"}
                           THEN doc.status ELSE w.status,
                !.updatedAt = w.updatedAt,
                !.completedAt = IF w.setCompletedAt THEN w.completedAt ELSE @,
                !.ver = t]
WriteOrder(doc, w, t) ==
    [doc EXCEPT !.status = w.status, !.updatedAt = w.updatedAt,
                !.completedAt = IF w.setCompletedAt THEN w.completedAt ELSE @,
                !.ver = t]

RECURSIVE WriteStocks(_, _)
\* the buffered transaction.update(stockDoc.ref, ...) calls applied in order
WriteStocks(st, ws) ==
    IF ws = <<>> THEN st
    ELSE WriteStocks([st EXCEPT ![Head(ws).id].quantity = Head(ws).quantity,
                                ![Head(ws).id].lastUpdated = Head(ws).lastUpdated],
                     Tail(ws))

\* what the session keeps of the stores when a call starts (for the claims)
PreState(orderId) ==
    [stocks |-> stocks, stockHistory |-> stockHistory, sales |-> sales,
     order |-> orders[orderId]]

\* handleStatusUpdate(orderId, newStatus) is called in session s: the lookup in
\* the session's order list, the early return, else the transaction starts.
\* keepPre: the stores as the call found them are kept for the claims.
HandleStatusUpdate_Mutant(s, orderId, newStatus, keepPre) ==
    /\ txn[s].pc = "idle"
    /\ ncalls < MaxCalls
    /\ ncalls' = ncalls + 1
    /\ LET i == FindOrder(sess[s].orders, orderId) IN
       IF i = 0
       THEN /\ txn' = [txn EXCEPT ![s] = [NoTxn EXCEPT
                        !.orderId = orderId, !.newStatus = newStatus,
                        !.result = "returned",
                        !.pre = IF keepPre THEN PreState(orderId) ELSE <<>>]]
            /\ sess' = sess
       ELSE /\ txn' = [txn EXCEPT ![s] = [NoTxn EXCEPT
                        !.pc = "get", !.orderId = orderId, !.newStatus = newStatus,
                        !.order = sess[s].orders[i], !.attempts = 1,
                        !.pre = IF keepPre THEN PreState(orderId) ELSE <<>>]]
            /\ sess' = [sess EXCEPT ![s].orders[i].data.status = newStatus]
    /\ UNCHANGED <<orders, stocks, stockHistory, sales, tracking, clock>>
    /\ UNCHANGED pageVars
HandleStatusUpdate(s, orderId, newStatus, keepPre) ==
    /\ txn[s].pc = "idle"
    /\ ncalls < MaxCalls
    /\ ncalls' = ncalls + 1
    /\ LET i == FindOrder(sess[s].orders, orderId) IN
       IF i = 0
       THEN txn' = [txn EXCEPT ![s] = [NoTxn EXCEPT
                        !.orderId = orderId, !.newStatus = newStatus,
                        !.result = "returned",
                        !.pre = IF keepPre THEN PreState(orderId) ELSE <<>>]]
       ELSE txn' = [txn EXCEPT ![s] = [NoTxn EXCEPT
                        !.pc = "get", !.orderId = orderId, !.newStatus = newStatus,
                        !.order = sess[s].orders[i], !.attempts = 1,
                        !.pre = IF keepPre THEN PreState(orderId) ELSE <<>>]]
    /\ UNCHANGED <<orders, stocks, stockHistory, sales, tracking, clock, sess>>
    /\ UNCHANGED pageVars

\* A throw inside the update function: runTransaction rejects, nothing that
\* was buffered is written, the catch block alerts the error's message
Abort_Mutant(s, message) ==
    /\ txn' = [txn EXCEPT ![s] = [@ EXCEPT !.pc = "idle", !.result = "error",
                                           !.alert = message]]
    /\ stocks' = WriteStocks(stocks, txn[s].wStock)
    /\ stockHistory' = stockHistory \o txn[s].wHist
    /\ UNCHANGED <<orders, sales, clock>>
Abort(s, message) ==
    /\ txn' = [txn EXCEPT ![s] = [@ EXCEPT !.pc = "idle", !.result = "error",
                                           !.alert = message]]
    /\ UNCHANGED <<orders, stocks, stockHistory, sales, clock>>

\* the update function after the line-item loop: the sales document when the
\* target is Completed, and the update of the order document, both buffered
AfterItems(t) ==
    [t EXCEPT !.pc = "commit",
              !.wSales = IF t.newStatus = "Completed"
                         THEN <<SaleOf(t.order, t.orderId, clock)>> ELSE <<>>,
              !.wOrder = <<OrderUpdate(t.newStatus, clock)>>]

\* transaction.get(orderRef) and the code up to the next await
TxnGet_Mutant(s) ==
    /\ txn[s].pc = "get"
    /\ LET t == txn[s]
           orderDoc == orders[t.orderId]
       IN  IF ~orderDoc.exists
           THEN Abort(s, <<"Order not found">>)
           ELSE /\ txn' = [txn EXCEPT ![s] =
                      LET read == [t EXCEPT !.readVer = orderDoc.ver, !.wStock = <<>>,
                                            !.wHist = <<>>, !.wSales = <<>>,
                                            !.wOrder = <<>>]
                      IN  IF t.newStatus = "Ready for Pickup" /\ t.order.data.items # <<>>
                             /\ t.order.data.status # "Ready for Pickup"
                          THEN [read EXCEPT !.pc = "item", !.idx = 1]
                          ELSE AfterItems(read)]
                /\ UNCHANGED <<orders, stocks, stockHistory, sales, clock>>
    /\ UNCHANGED <<tracking, sess, ncalls>>
    /\ UNCHANGED pageVars
TxnGet(s) ==
    /\ txn[s].pc = "get"
    /\ LET t == txn[s]
           orderDoc == orders[t.orderId]
       IN  IF ~orderDoc.exists
           THEN Abort(s, <<"Order not found">>)
           ELSE /\ txn' = [txn EXCEPT ![s] =
                      LET read == [t EXCEPT !.readVer = orderDoc.ver, !.wStock = <<>>,
                                            !.wHist = <<>>, !.wSales = <<>>,
                                            !.wOrder = <<>>]
                      IN  IF t.newStatus = "Ready for Pickup" /\ t.order.data.items # <<>>
                          THEN [read EXCEPT !.pc = "item", !.idx = 1]
                          ELSE AfterItems(read)]
                /\ UNCHANGED <<orders, stocks, stockHistory, sales, clock>>
    /\ UNCHANGED <<tracking, sess, ncalls>>
    /\ UNCHANGED pageVars

\* one pass of the line-item loop: getDocs(stockQuery) answers from the stocks
\* collection as committed now, then the checks and the two buffered writes
TxnItem(s) ==
    /\ txn[s].pc = "item"
    /\ LET t == txn[s]
           item == t.order.data.items[t.idx]
           stockSnapshot == StockQuery(item)
       IN  IF stockSnapshot = <<>>
           THEN Abort(s, StockError("No stock found for ", item))
           ELSE LET stockId == stockSnapshot[1]
                    stockData == stocks[stockId]
                    newQuantity == NewQuantity(stockData.quantity, item.productQuantity)
                IN  IF Insufficient(stockData.quantity, item.productQuantity)
                    THEN Abort(s, StockError("Insufficient stock for ", item))
                    ELSE /\ txn' = [txn EXCEPT ![s] =
                               LET w == [t EXCEPT
                                          !.wStock = Append(@, [id |-> stockId,
                                                quantity |-> newQuantity,
                                                lastUpdated |-> clock]),
                                          !.wHist = Append(@, HistoryEntry(item,
                                                t.orderId, stockId,
                                                stockData.quantity, clock))]
                               IN  IF t.idx = Len(t.order.data.items)
                                   THEN AfterItems(w)
                                   ELSE [w EXCEPT !.idx = t.idx + 1]]
                         /\ UNCHANGED <<orders, stocks, stockHistory, sales, clock>>
    /\ UNCHANGED <<tracking, sess, ncalls>>
    /\ UNCHANGED pageVars

\* The commit of the transaction. Only the order document was read through
\* the transaction, so only its version is verified; the stock documents were
\* read by plain queries and are written without a version check. A failed
\* verification runs the update function again (the attempts the SDK allows
\* are more than the calls of a behaviour can use up).
TxnCommit(s) ==
    /\ txn[s].pc = "commit"
    /\ LET t == txn[s]
           orderDoc == orders[t.orderId]
       IN  IF orderDoc.exists /\ orderDoc.ver = t.readVer
           THEN /\ stocks' = WriteStocks(stocks, t.wStock)
                /\ stockHistory' = stockHistory \o t.wHist
                /\ sales' = sales \o t.wSales
                /\ orders' = [orders EXCEPT ![t.orderId] =
                                 WriteOrder(@, t.wOrder[1], clock + 1)]
                /\ clock' = clock + 1
                /\ txn' = [txn EXCEPT ![s] = [t EXCEPT
                             !.pc = "idle", !.result = "ok",
                             !.alert = IF t.newStatus = "Completed"
                                       THEN <<"Order completed and sales updated successfully!">>
                                       ELSE <<"Order status updated successfully!">>]]
           ELSE /\ txn' = [txn EXCEPT ![s] = [t EXCEPT !.pc = "get",
                                                      !.attempts = t.attempts + 1]]
                /\ UNCHANGED <<orders, stocks, stockHistory, sales, clock>>
    /\ UNCHANGED <<tracking, sess, ncalls>>
    /\ UNCHANGED pageVars

----------------------------------------------------------------------------
(* The other writers of the orders collection *)

\* the payment flow approves a pending GCash payment
ApprovePayment(o) ==
    /\ orders[o].exists
    /\ orders[o].paymentMethod = "GCash"
    /\ orders[o].paymentStatus = "pending"
    /\ orders' = [orders EXCEPT ![o].paymentStatus = "approved", ![o].ver = clock + 1]
    /\ clock' = clock + 1
    /\ UNCHANGED <<stocks, stockHistory, sales, tracking, sess, txn, ncalls>>
    /\ UNCHANGED pageVars

\* an order document is deleted outside this page
DeleteOrder(o) ==
    /\ orders[o].exists
    /\ orders' = [orders EXCEPT ![o].exists = FALSE, ![o].ver = clock + 1]
    /\ clock' = clock + 1
    /\ UNCHANGED <<stocks, stockHistory, sales, tracking, sess, txn, ncalls>>
    /\ UNCHANGED pageVars

----------------------------------------------------------------------------------------------------------------------------------------
(* Specifications *)

PayCash == <<"Cash", Undefined>>

\* the stock quantities the specifications start from
InitialStock == <<5, 2>>

\* the targets of a status update that have side effects on other collections
SideEffectTargets == {"Ready for Pickup", "Completed"}

\* Spec: two staff sessions whose status updates interleave step by step
Init ==
    InitWith({<<ItemsSingle, ItemsSingle>>, <<ItemsSmall, ItemsTwo>>},
             {PayCash}, {InitialStock})

Next ==
    \/ \E s \in Sessions : OnSnapshot(s, {})
    \/ \E s \in Sessions, o \in OrderIds, st \in SideEffectTargets :
          HandleStatusUpdate(s, o, st, FALSE)
    \/ \E s \in Sessions : TxnGet(s)
    \/ \E s \in Sessions : TxnItem(s)
    \/ \E s \in Sessions : TxnCommit(s)

Spec == Init /\ [][Next]_vars

\* SpecSeq: one staff session, whose status updates therefore run one at a
\* time, with every target status, while orders may be deleted from outside
InitSeq == InitWith({<<ItemsSingle, ItemsMixed>>}, {PayCash}, {InitialStock})

NextSeq ==
    \/ OnSnapshot("s1", {})
    \/ \E o \in OrderIds, st \in Statuses : HandleStatusUpdate("s1", o, st, TRUE)
    \/ TxnGet("s1")
    \/ TxnItem("s1")
    \/ TxnCommit("s1")
    \/ \E o \in OrderIds : DeleteOrder(o)

SpecSeq == InitSeq /\ [][NextSeq]_vars

\* SpecView: one session's live list over orders of every payment state
PaymentStates ==
    {"GCash", "Cash"} \X {"pending", "approved", "rejected", Undefined}

InitView == InitWith({<<ItemsSingle, ItemsSmall>>}, PaymentStates, {InitialStock})

NextView ==
    \/ OnSnapshot("s1", {})
    \/ \E o \in OrderIds : ApprovePayment(o)
    \/ \E o \in OrderIds : DeleteOrder(o)

SpecView == InitView /\ [][NextView]_vars

\* SpecSync: the callbacks of one session await by await, while payments are
\* approved, orders are deleted and the page is left
PayPending == <<"GCash", "pending">>

InitSync ==
    InitWith({<<ItemsSingle, ItemsSmall>>}, {PayCash, PayPending}, {InitialStock})

NextSync ==
    \/ Deliver("s1", {})
    \/ \E h \in handlers["s1"], i \in 1..2 : SaveQuery("s1", h, i)
    \/ \E h \in handlers["s1"], i \in 1..2 : SaveWrite("s1", h, i)
    \/ \E h \in handlers["s1"] : HandlerFinish("s1", h)
    \/ Unsubscribe("s1")
    \/ \E o \in OrderIds : ApprovePayment(o)
    \/ \E o \in OrderIds : DeleteOrder(o)

SpecSync == InitSync /\ [][NextSync]_vars

\* SpecConverge: one session whose status updates change the orders while its
\* callbacks run await by await
StatusTargets == {"Preparing Order", "Cancelled"}

InitConverge == InitWith({<<ItemsSingle, ItemsSmall>>}, {PayCash}, {InitialStock})

NextConverge ==
    \/ Deliver("s1", {})
    \/ \E h \in handlers["s1"], i \in 1..2 : SaveQuery("s1", h, i)
    \/ \E h \in handlers["s1"], i \in 1..2 : SaveWrite("s1", h, i)
    \/ \E h \in handlers["s1"] : HandlerFinish("s1", h)
    \/ \E o \in OrderIds, st \in StatusTargets : HandleStatusUpdate("s1", o, st, FALSE)
    \/ TxnGet("s1")
    \/ TxnCommit("s1")

SpecConverge == InitConverge /\ [][NextConverge]_vars

\* SpecSearch: one session's list and search box, while payments are approved
\* and orders are deleted
InitSearch ==
    InitWith({<<ItemsSingle, ItemsSmall>>}, {PayCash, PayPending}, {InitialStock})

NextSearch ==
    \/ OnSnapshot("s1", {})
    \/ \E term \in SearchTerms : SetSearchTerm("s1", term)
    \/ \E o \in OrderIds : ApprovePayment(o)
    \/ \E o \in OrderIds : DeleteOrder(o)

SpecSearch == InitSearch /\ [][NextSearch]_vars

\* SpecSame: one session moving orders to Ready for Pickup, the first order
\* with two line items that both match the stock record k1
ItemsSame == <<Item("S", <<"a">>, 2, 2), Item("S", <<"a">>, 2, 3)>>

InitSame ==
    InitWith({<<ItemsSame, ItemsSmall>>}, {PayCash}, {InitialStock, <<3, 2>>})

NextSame ==
    \/ OnSnapshot("s1", {})
    \/ \E o \in OrderIds : HandleStatusUpdate("s1", o, "Ready for Pickup", TRUE)
    \/ TxnGet("s1")
    \/ TxnItem("s1")
    \/ TxnCommit("s1")
    \/ \E o \in OrderIds : DeleteOrder(o)

SpecSame == InitSame /\ [][NextSame]_vars

\* SpecLookup: one session's callbacks when customer lookups may fail
FailingLookups == SUBSET {"u1", "u3"}

InitLookup ==
    InitWith({<<ItemsSingle, ItemsSmall>>}, {PayCash, PayPending}, {InitialStock})

NextLookup ==
    \/ \E failing \in FailingLookups : OnSnapshot("s1", failing)
    \/ \E o \in OrderIds : ApprovePayment(o)
    \/ \E o \in OrderIds : DeleteOrder(o)

SpecLookup == InitLookup /\ [][NextLookup]_vars

\* SpecRepeat: one session moving orders whose line items match different
\* stock records to any status, to Ready for Pickup repeatedly too
\* the stock quantities SpecRepeat starts from
InitialQuantityRepeat == <<6, 4>>

InitRepeat == InitWith({<<ItemsSmall, ItemsTwo>>}, {PayCash}, {InitialQuantityRepeat})

NextRepeat ==
    \/ OnSnapshot("s1", {})
    \/ \E o \in OrderIds, st \in Statuses : HandleStatusUpdate("s1", o, st, TRUE)
    \/ TxnGet("s1")
    \/ TxnItem("s1")
    \/ TxnCommit("s1")

SpecRepeat == InitRepeat /\ [][NextRepeat]_vars

----------------------------------------------------------------------------
(* Claims *)

InitialQuantity(k) == IF k = "k1" THEN InitialStock[1] ELSE InitialStock[2]

\* a call of session s has returned
Returned(s) == txn[s].pc = "idle" /\ txn[s].result # "none"
Failed(s)   == txn[s].pc = "idle" /\ txn[s].result = "error"
Succeeded(s, target) ==
    txn[s].pc = "idle" /\ txn[s].result = "ok" /\ txn[s].newStatus = target

\* the step in which the transaction of session s commits
Commits(s) == txn[s].pc = "commit" /\ txn'[s].pc = "idle"

\* C1: when a status update aborts (order not found, no stock found,
\* insufficient stock), the stocks, the stock history, the sales and the
\* order's status are exactly what they were when the call was made, also when
\* earlier line items had passed their checks.
C1_AbortRollsBack ==
    \A s \in Sessions :
        Failed(s) =>
            /\ stocks = txn[s].pre.stocks
            /\ stockHistory = txn[s].pre.stockHistory
            /\ sales = txn[s].pre.sales
            /\ orders[txn[s].orderId].status = txn[s].pre.order.status

\* a call aborted at a later line item, with decrements of earlier ones buffered
C1_Witness ==
    \E s \in Sessions :
        /\ Failed(s)
        /\ txn[s].newStatus = "Ready for Pickup"
        /\ txn[s].idx > 1
        /\ txn[s].wStock # <<>>
        /\ txn[s].wHist # <<>>

\* the quantity the stock history accounts for: one entry per decrement applied
Deducted(k) ==
    SumSeq([i \in DOMAIN stockHistory |->
               IF stockHistory[i].stockId = k THEN stockHistory[i].quantity ELSE 0])

\* C2: transitions of different orders on the same stock record lose no
\* update: every stock quantity is the initial quantity minus the quantities of
\* the transitions that succeeded (one history entry each).
C2_NoLostUpdate ==
    \A i \in DOMAIN StockIds :
        stocks[StockIds[i]].quantity
            = InitialQuantity(StockIds[i]) - Deducted(StockIds[i])

\* the history entries written for order o
DeductionsOf(o) ==
    {i \in DOMAIN stockHistory : stockHistory[i].remarks[2] = o}

\* C3: when two sessions move the same order to Ready for Pickup at the same
\* time (the later transaction had to run again because the earlier one
\* committed under it), the order's line items are deducted only once.
C3_DeductedOnce ==
    \A s, r \in Sessions :
        ( /\ s # r
          /\ txn[s].orderId = txn[r].orderId
          /\ Succeeded(s, "Ready for Pickup")
          /\ Succeeded(r, "Ready for Pickup")
          /\ txn[r].attempts > 1 )
        => Cardinality(DeductionsOf(txn[s].orderId)) <= Len(txn[s].order.data.items)

\* C4: every stock quantity is a non-negative integer in every reachable
\* state, and so is every quantity a transaction is about to write.
C4_NonNegative ==
    /\ \A i \in DOMAIN StockIds : stocks[StockIds[i]].quantity \in Nat
    /\ \A s \in Sessions : \A i \in DOMAIN txn[s].wStock :
          txn[s].wStock[i].quantity \in Nat

\* a transition was rejected for insufficient stock
C4_Witness ==
    \E s \in Sessions :
        /\ Failed(s)
        /\ txn[s].alert[1] = "Insufficient stock for "
        /\ \E i \in DOMAIN StockIds : stocks[StockIds[i]].quantity < InitialStock[i]

\* C5: a successful Ready for Pickup update of an order with one line item
\* (quantity q, matching record holding Q) leaves the record at Q - q, appends
\* exactly one history entry (out, q, previousStock Q, currentStock Q - q, the
\* record's id) and sets the order's status.
C5_SingleItemDecrement ==
    \A s \in Sessions :
        (Succeeded(s, "Ready for Pickup") /\ Len(txn[s].order.data.items) = 1) =>
            LET item == txn[s].order.data.items[1]
                q == item.productQuantity
                pre == txn[s].pre
                k == StockQuery(item)[1]
                bigQ == pre.stocks[k].quantity
            IN  /\ q <= bigQ
                /\ stocks[k].quantity = bigQ - q
                /\ \A id \in Range(StockIds) \ {k} : stocks[id] = pre.stocks[id]
                /\ Len(stockHistory) = Len(pre.stockHistory) + 1
                /\ SubSeq(stockHistory, 1, Len(pre.stockHistory)) = pre.stockHistory
                /\ LET h == stockHistory[Len(stockHistory)] IN
                       /\ h.type = "out"
                       /\ h.quantity = q
                       /\ h.previousStock = bigQ
                       /\ h.currentStock = bigQ - q
                       /\ h.stockId = k
                /\ orders[txn[s].orderId].exists
                      => orders[txn[s].orderId].status = "Ready for Pickup"

C5_Witness ==
    \E s \in Sessions :
        /\ Succeeded(s, "Ready for Pickup")
        /\ Len(txn[s].order.data.items) = 1
        /\ Len(stockHistory) = 1

\* the message the claim expects for a line item short of stock
InsufficientMessage(item) ==
    <<"Insufficient stock for ", item.productSize, " with varieties ">>
    \o Join([i \in DOMAIN item.productVarieties |-> <<item.productVarieties[i]>>], ", ")

\* line item i of the call of session s is short of stock as the call found
\* the stocks, and every line item before it passes its check
ShortOfStock(s, i) ==
    LET items == txn[s].order.data.items
        pre == txn[s].pre
        has(j) == StockQuery(items[j]) # <<>>
        held(j) == pre.stocks[StockQuery(items[j])[1]].quantity
    IN  /\ has(i)
        /\ items[i].productQuantity > held(i)
        /\ \A j \in 1..(i - 1) : has(j) /\ items[j].productQuantity <= held(j)

\* C6: when the transaction of a Ready for Pickup update comes to a line item
\* requesting q whose matching record holds Q < q, the update fails with the
\* 'Insufficient stock' message naming the item's size and varieties, and the
\* stocks, the stock history and the order's status stay as they were.
C6_InsufficientRejected ==
    \A s \in Sessions :
        (Returned(s) /\ txn[s].newStatus = "Ready for Pickup" /\ txn[s].idx >= 1) =>
            \A i \in DOMAIN txn[s].order.data.items :
                ShortOfStock(s, i) =>
                    /\ txn[s].result = "error"
                    /\ txn[s].alert = InsufficientMessage(txn[s].order.data.items[i])
                    /\ stocks = txn[s].pre.stocks
                    /\ stockHistory = txn[s].pre.stockHistory
                    /\ orders[txn[s].orderId].status = txn[s].pre.order.status

C6_Witness ==
    \E s \in Sessions :
        /\ Returned(s)
        /\ txn[s].newStatus = "Ready for Pickup"
        /\ txn[s].idx >= 1
        /\ \E i \in DOMAIN txn[s].order.data.items : ShortOfStock(s, i)
        /\ txn[s].alert[1] = "Insufficient stock for "

\* C7: the sales collection holds at most one document per order id.
C7_OneSalePerOrder ==
    \A o \in OrderIds :
        Cardinality({i \in DOMAIN sales : sales[i].orderId = o}) <= 1

\* C8: the commit of a Completed update appends exactly one sales document
\* with the order id, each line's subtotal its price times its quantity, the
\* amount the sum of the subtotals, and in the same step sets the order's
\* status to Completed with its update and completion timestamps.
C8_CompletedSale ==
    [][\A s \in Sessions :
          (Commits(s) /\ txn[s].newStatus = "Completed") =>
              LET o == txn[s].orderId
                  items == orders[o].items
                  rec == sales'[Len(sales')]
              IN  /\ Len(sales') = Len(sales) + 1
                  /\ SubSeq(sales', 1, Len(sales)) = sales
                  /\ rec.orderId = o
                  /\ Len(rec.items) = Len(items)
                  /\ \A i \in DOMAIN items :
                        rec.items[i].subtotal
                            = items[i].productPrice * items[i].productQuantity
                  /\ rec.amount = SumSeq([i \in DOMAIN rec.items |->
                                             rec.items[i].subtotal])
                  /\ orders'[o].status = "Completed"
                  /\ orders'[o].completedAt # NoTime
                  /\ orders'[o].updatedAt = orders'[o].completedAt
                  /\ txn'[s].result = "ok"]_vars

C8_Witness ==
    \E s \in Sessions :
        /\ Succeeded(s, "Completed")
        /\ Len(sales) = 1
        /\ sales[1].orderId = txn[s].orderId
        /\ orders[txn[s].orderId].status = "Completed"

PlainTargets == {"Order Confirmed", "Preparing Order", "Cancelled"}

\* C9: no step of a status update touches what its target does not own:
\* stocks and stock history unless the target is Ready for Pickup, sales and
\* completion timestamps unless it is Completed; for the three plain targets
\* only the order's status and update timestamp (and the document's version).
C9_Frame ==
    [][\A s \in Sessions :
          (txn'[s] # txn[s]) =>
              LET target == txn'[s].newStatus
                  o == txn'[s].orderId
              IN  /\ target # "Ready for Pickup" =>
                        stocks' = stocks /\ stockHistory' = stockHistory
                  /\ target # "Completed" =>
                        /\ sales' = sales
                        /\ \A p \in OrderIds :
                              orders'[p].completedAt = orders[p].completedAt
                  /\ target \in PlainTargets =>
                        /\ tracking' = tracking
                        /\ sess' = sess
                        /\ \A p \in OrderIds \ {o} : orders'[p] = orders[p]
                        /\ orders'[o] = [orders[o] EXCEPT
                                            !.status = orders'[o].status,
                                            !.updatedAt = orders'[o].updatedAt,
                                            !.ver = orders'[o].ver]]_vars

C9_Witness ==
    \E s \in Sessions :
        /\ Succeeded(s, "Cancelled")
        /\ orders[txn[s].orderId].status = "Cancelled"
        /\ orders[txn[s].orderId].updatedAt # NoTime
        /\ orders[txn[s].orderId].completedAt = NoTime

\* C10: the list a snapshot's handler hands to the page holds exactly the
\* snapshot's orders that are GCash with payment status approved, or not GCash
\* with a payment status other than pending (none counts as not pending).
C10_VisibleList ==
    [][\A s \in Sessions :
          (sess'[s].seen # sess[s].seen) =>
              LET docs == SnapshotDocs
                  shown(o) == \/ /\ orders[o].paymentMethod = "GCash"
                                 /\ orders[o].paymentStatus = "approved"
                              \/ /\ orders[o].paymentMethod # "GCash"
                                 /\ orders[o].paymentStatus # "pending"
                  list == sess'[s].orders
              IN  [i \in DOMAIN list |-> list[i].id]
                      = FilterSeq(docs, {i \in DOMAIN docs : shown(docs[i])})]_vars

\* a list that shows a cash order without payment status and hides a GCash
\* order whose payment was rejected
C10_Witness ==
    \E s \in Sessions, o, p \in OrderIds :
        /\ sess[s].seen = clock
        /\ orders[o].exists /\ orders[p].exists
        /\ orders[o].paymentMethod = "GCash" /\ orders[o].paymentStatus = "rejected"
        /\ orders[p].paymentMethod = "Cash" /\ orders[p].paymentStatus = Undefined
        /\ [i \in DOMAIN sess[s].orders |-> sess[s].orders[i].id] = <<p>>

\* the tracking documents of order o
EntriesOf(o) == {i \in DOMAIN tracking : tracking[i].orderId = o}

\* C11: the tracking collection never holds more than one document for the
\* same order id, whatever callbacks synced the order and however they overlapped.
C11_OneEntryPerOrder ==
    \A o \in OrderIds : Cardinality(EntriesOf(o)) <= 1

\* C12: no step changes the createdAt of a tracking document that exists: an
\* update keeps the creation timestamp written at insert time.
C12_CreatedAtKept ==
    [][\A i \in DOMAIN tracking : tracking'[i].createdAt = tracking[i].createdAt]_vars

\* the orders collection has stopped changing and nothing is pending: no call
\* and no callback is in flight, and the last snapshot has been delivered
Quiescent ==
    /\ \A s \in Sessions : txn[s].pc = "idle" /\ handlers[s] = {}
    /\ sess["s1"].seen = clock

\* tracking document e holds the state of the order document d
Mirrors(e, d) ==
    /\ e.orderStatus = d.status
    /\ e.paymentStatus = (IF d.paymentStatus = Undefined THEN "unknown"
                          ELSE d.paymentStatus)
    /\ e.items = d.items
    /\ e.totalAmount = d.totalAmount

\* C13: once the orders collection has stopped changing and every pending
\* callback has finished, each visible order has a tracking document, and the
\* one the sync finds for it (the first) mirrors the order's committed state.
C13_Converges ==
    Quiescent =>
        \A i \in DOMAIN sess["s1"].orders :
            LET o == sess["s1"].orders[i].id
                e == TrackingQuery(tracking, o)
            IN  e # 0 /\ Mirrors(tracking[e], orders[o])

\* C14: a status update called for an order id that has no document in the
\* orders collection changes nothing and reports 'Order not found'; it never
\* returns without a report.
C14_NotFoundReported ==
    \A s \in Sessions :
        (Returned(s) /\ ~txn[s].pre.order.exists) =>
            /\ txn[s].result = "error"
            /\ txn[s].alert = <<"Order not found">>
            /\ stocks = txn[s].pre.stocks
            /\ stockHistory = txn[s].pre.stockHistory
            /\ sales = txn[s].pre.sales

\* the step ends the callback h of session s (a callback is known by the time
\* of its snapshot)
Ends(s, h) == h \in handlers[s] /\ \A g \in handlers'[s] : g.at # h.at

\* C15: the order list a session shows changes only in the step that ends a
\* snapshot's callback, and then to the orders of that snapshot; no step of a
\* status update writes it, neither when the call is made nor when its
\* transaction commits or fails.
C15_ListFromSnapshot ==
    [][\A s \in Sessions :
          /\ (sess'[s].orders # sess[s].orders) =>
                /\ \E h \in handlers[s] :
                      /\ Ends(s, h)
                      /\ sess'[s].orders = h.filteredOrders
                /\ txn' = txn
          /\ (txn'[s] # txn[s]) => sess'[s] = sess[s]]_vars

\* a status update has succeeded and the list still shows the status of the
\* last snapshot handled
C15_Witness ==
    \E s \in Sessions :
        /\ Succeeded(s, "Cancelled")
        /\ \E i \in DOMAIN sess[s].orders :
              /\ sess[s].orders[i].id = txn[s].orderId
              /\ sess[s].orders[i].data.status = "Order Placed"
              /\ orders[txn[s].orderId].status = "Cancelled"

\* the same letter, whatever its case
SameLetter(a, b) ==
    a = b \/ \E k \in DOMAIN Uppercase : {a, b} = {Uppercase[k], Lowercase[k]}

\* term occurs in str when case is ignored
ContainsAnyCase(str, term) ==
    \E k \in 0..(Len(str) - Len(term)) :
        \A j \in 1..Len(term) : SameLetter(str[k + j], term[j])

\* C16: the searched list holds exactly the orders of the list, in order, whose
\* id contains the term or whose resolved first and last name, joined by a
\* space, contain it, case ignored; with the empty term it is the whole list,
\* orders without a resolved name included.
C16_Search ==
    \A s \in Sessions :
        LET list == sess[s].orders
            term == searchTerm[s]
            named(i) == list[i].userDetails.found
            expected(i) ==
                \/ ContainsAnyCase(IdString(list[i].id), term)
                \/ /\ named(i)
                   /\ ContainsAnyCase(list[i].userDetails.firstName \o <<" ">>
                                      \o list[i].userDetails.lastName, term)
        IN  /\ SearchResult(s) = FilterSeq(list, {i \in DOMAIN list : expected(i)})
            /\ term = <<>> => SearchResult(s) = list

\* a search by name in the other case finds the one order whose name resolved
C16_Witness ==
    /\ Len(sess["s1"].orders) = 2
    /\ \E i \in 1..2 : ~sess["s1"].orders[i].userDetails.found
    /\ searchTerm["s1"] = <<"B", "O">>
    /\ Len(SearchResult("s1")) = 1
    /\ SearchResult("s1")[1].id = "o1"

\* C17: when a Ready for Pickup update succeeds for an order whose line items
\* all match one stock record, the record held at least the sum of their
\* quantities and ends at what it held minus that sum, and the history entry
\* of each line item starts from what the line item before it left.
C17_SameRecordSummed ==
    \A s \in Sessions :
        LET items == txn[s].order.data.items
            pre == txn[s].pre
            k == StockQuery(items[1])[1]
            requested(n) == SumSeq([i \in 1..n |-> items[i].productQuantity])
            held == pre.stocks[k].quantity
            base == Len(pre.stockHistory)
        IN  ( /\ Succeeded(s, "Ready for Pickup")
              /\ Len(items) > 1
              /\ \A i \in DOMAIN items : StockQuery(items[i]) # <<>>
                                          /\ StockQuery(items[i])[1] = k )
            => /\ requested(Len(items)) <= held
               /\ stocks[k].quantity = held - requested(Len(items))
               /\ Len(stockHistory) = base + Len(items)
               /\ \A i \in DOMAIN items :
                     /\ stockHistory[base + i].previousStock = held - requested(i - 1)
                     /\ stockHistory[base + i].currentStock = held - requested(i)

\* every line item of the call of session s has a stock record that held at
\* least the item's quantity when the call was made
StockChecksPass(s) ==
    \A i \in DOMAIN txn[s].order.data.items :
        LET item == txn[s].order.data.items[i] IN
        /\ StockQuery(item) # <<>>
        /\ item.productQuantity <= txn[s].pre.stocks[StockQuery(item)[1]].quantity

\* C18: a status update of an order whose document exists succeeds with any
\* of the five targets whatever the order's current status is, and sets that
\* status; only a Ready for Pickup target depends on something, the stock
\* checks of its line items.
C18_AnyTargetFromAnyStatus ==
    \A s \in Sessions :
        ( /\ Returned(s)
          /\ txn[s].result # "returned"
          /\ txn[s].alert # <<"Order not found">> )
        => /\ txn[s].newStatus \in Statuses
           /\ txn[s].newStatus # "Ready for Pickup" => txn[s].result = "ok"
           /\ txn[s].newStatus = "Ready for Pickup" =>
                 (txn[s].result = "ok" <=> StockChecksPass(s))
           /\ txn[s].result = "ok" =>
                 orders[txn[s].orderId].status = txn[s].newStatus

\* a completed order moved back to Preparing Order
C18_Witness ==
    \E s \in Sessions :
        /\ Succeeded(s, "Preparing Order")
        /\ txn[s].pre.order.status = "Completed"
        /\ orders[txn[s].orderId].status = "Preparing Order"
        /\ Len(sales) = 1

\* the order document d passes the visibility filter
PassesFilter(d) ==
    IF d.paymentMethod = "GCash" THEN d.paymentStatus = "approved"
    ELSE d.paymentStatus # "pending"

\* C19: when the callback of a snapshot ends, every order of its filtered list
\* has a tracking document; and an order that has passed the filter in no
\* snapshot has none. (An order's payment only ever goes from pending to
\* approved here, so an order that fails the filter now has failed it in
\* every snapshot so far.)
C19_EntriesForVisibleOnly ==
    [][/\ \A s \in Sessions : \A h \in handlers[s] :
             Ends(s, h) =>
                 \A i \in DOMAIN h.filteredOrders :
                     \E e \in DOMAIN tracking' :
                         tracking'[e].orderId = h.filteredOrders[i].id
       /\ \A o \in OrderIds :
             ~PassesFilter(orders'[o]) =>
                 \A e \in DOMAIN tracking' : tracking'[e].orderId # o]_vars

\* a snapshot with a visible and a pending order has been handled
C19_Witness ==
    /\ handlers["s1"] = {}
    /\ ~sess["s1"].loading
    /\ \E o, p \in OrderIds :
          /\ [i \in DOMAIN sess["s1"].orders |-> sess["s1"].orders[i].id] = <<o>>
          /\ EntriesOf(o) # {}
          /\ orders[p].exists /\ ~PassesFilter(orders[p])
          /\ EntriesOf(p) = {}

\* C20: once the subscription of a session is released, the session writes
\* no tracking document and sets no order list any more, also when a callback
\* was still running at that moment. (In SpecSync the session is the only
\* writer of the tracking collection.)
C20_QuietAfterUnsubscribe ==
    [][~subscribed["s1"] => (tracking' = tracking /\ sess' = sess)]_vars

\* C21: whatever customer lookups of a snapshot fail or find no document, the
\* list is the snapshot's orders that pass the filter; an order whose lookup
\* failed or was empty is listed without a name (shown as "Loading...") and
\* its tracking document is named 'Unknown'; every other order is listed and
\* synced with its resolved name.
C21_LookupNotFatal ==
    [][\A failing \in FailingLookups :
          OnSnapshot("s1", failing) =>
              LET docs == SnapshotDocs
                  shown == FilterSeq(docs,
                               {i \in DOMAIN docs : PassesFilter(orders[docs[i]])})
                  list == sess'["s1"].orders
                  unresolved(o) == o = "o2" \/ orders[o].userId \in failing
              IN  /\ [i \in DOMAIN list |-> list[i].id] = shown
                  /\ \A i \in DOMAIN list :
                        LET o == list[i].id
                            e == TrackingQuery(tracking', o)
                        IN  /\ e # 0
                            /\ IF unresolved(o)
                               THEN /\ DisplayName(list[i]) = Str_Loading
                                    /\ tracking'[e].customerName
                                          = <<"U", "n", "k", "n", "o", "w", "n">>
                               ELSE /\ DisplayName(list[i]) = <<"A", "l", " ", "B", "o">>
                                    /\ tracking'[e].customerName
                                          = <<"A", "l", " ", "B", "o">>]_vars

\* a snapshot of two visible orders handled with one name resolved and the
\* other not
C21_Witness ==
    /\ sess["s1"].seen = clock
    /\ Len(sess["s1"].orders) = 2
    /\ \E i, j \in 1..2 :
          /\ sess["s1"].orders[i].userDetails.found
          /\ ~sess["s1"].orders[j].userDetails.found
          /\ tracking[TrackingQuery(tracking, sess["s1"].orders[i].id)].customerName
                = <<"A", "l", " ", "B", "o">>
          /\ tracking[TrackingQuery(tracking, sess["s1"].orders[j].id)].customerName
                = Str_Unknown

\* the quantity the line items of a list request from stock record k
RequestedFrom(items, k) ==
    SumSeq([i \in DOMAIN items |->
               IF StockQuery(items[i]) # <<>> /\ StockQuery(items[i])[1] = k
               THEN items[i].productQuantity ELSE 0])

C23_ListOfLatestSnapshot ==
    ( /\ subscribed["s1"]
      /\ handlers["s1"] = {}
      /\ sess["s1"].seen = clock )
    => sess["s1"].orders = FilteredOrders({})

====
